---- MODULE Spec2Model ----
(***************************************************************************)
(* RequestDeduplicator (src/src/request/deduplicator.ts): the Pending and  *)
(* Completed tables, deduplicate/execute with their settlement handlers,   *)
(* cleanup, clear, getStats and the auto-cleanup timer.                    *)
(*                                                                         *)
(* Strings are sequences of UTF-16 code units, so that toUpperCase, the    *)
(* default Array.prototype.sort order and JSON.stringify are computed and  *)
(* not assumed.  Times are milliseconds, as returned by Date.now().        *)
(***************************************************************************)
EXTENDS Integers, Sequences, FiniteSets, TLC

\* ------------------------------------------------------------------ bounds
\* Number of deduplicate/execute calls made in a run.
MaxCalls == 2
\* Number of clock advances in a run.
MaxTicks == 3
\* Number of setInterval timers created in a run.
MaxTimers == 2

\* ------------------------------------------------------- program constants
DefaultRequestTimeout == 30000
DefaultMaxAge == 10000
DefaultIntervalMs == 60000

\* The clock advances in steps of TickMs, so that an age equal to
\* requestTimeout, and one above it, are reached within MaxTicks.
TickMs == DefaultRequestTimeout \div 2
\* Date.now() at construction: milliseconds since the epoch, positive.
StartTime == TickMs
EndTime == StartTime + MaxTicks * TickMs

\* ----------------------------------------------------------------- strings
Colon == <<58>>
Comma == <<44>>
Quote == <<34>>
\* "post", "POST", "/orders", "/users", "a", "b"
StrPostLower == <<112, 111, 115, 116>>
StrPostUpper == <<80, 79, 83, 84>>
StrOrders == <<47, 111, 114, 100, 101, 114, 115>>
StrA == <<97>>
StrB == <<98>>

\* String.prototype.toUpperCase on ASCII letters.
ToUpperCase(s) ==
    [i \in 1..Len(s) |-> IF s[i] \in 97..122 THEN s[i] - 32 ELSE s[i]]

\* a < b in the code-unit order Array.prototype.sort() uses by default.
RECURSIVE StrLess(_, _)
StrLess(a, b) ==
    IF Len(b) = 0 THEN FALSE
    ELSE IF Len(a) = 0 THEN TRUE
    ELSE IF a[1] # b[1] THEN a[1] < b[1]
    ELSE StrLess(Tail(a), Tail(b))

\* Insert key k into the sorted sequence s.
RECURSIVE SortedInsert(_, _)
SortedInsert(s, k) ==
    IF Len(s) = 0 THEN <<k>>
    ELSE IF StrLess(k, s[1]) THEN <<k>> \o s
    ELSE <<s[1]>> \o SortedInsert(Tail(s), k)

\* Array.prototype.sort() on an array of distinct strings.
RECURSIVE SortStrings(_)
SortStrings(s) ==
    IF Len(s) = 0 THEN <<>>
    ELSE SortedInsert(SortStrings(Tail(s)), s[1])

\* ------------------------------------------------------------- JS values
\* A value is undefined, a number, an array, or an object whose own
\* properties are kept in insertion order (names are not array indices).
Undefined == [type |-> "undefined"]
Num(n) == [type |-> "number", n |-> n]
Arr(items) == [type |-> "array", items |-> items]
Obj(keys, vals) == [type |-> "object", keys |-> keys, vals |-> vals]

\* record[key] of an object value.
PropertyOf(obj, key) ==
    obj.vals[CHOOSE i \in 1..Len(obj.keys) : obj.keys[i] = key]

\* Mutant of sortObjectKeys: only the top-level keys are sorted; arrays and
\* property values are passed through as they are.
sortObjectKeysShallow(obj) ==
    IF obj.type # "object" THEN obj
    ELSE LET sorted == SortStrings(obj.keys)
         IN Obj(sorted, [i \in 1..Len(sorted) |-> PropertyOf(obj, sorted[i])])

\* sortObjectKeys: primitives unchanged, arrays element-wise in place,
\* objects rebuilt with their keys in sorted order.
RECURSIVE sortObjectKeys(_)
sortObjectKeys(obj) ==
    IF obj.type \notin {"object", "array"} THEN obj
    ELSE IF obj.type = "array"
    THEN Arr([i \in 1..Len(obj.items) |-> sortObjectKeys(obj.items[i])])
    ELSE LET sorted == SortStrings(obj.keys)
         IN Obj(sorted,
                [i \in 1..Len(sorted) |-> sortObjectKeys(PropertyOf(obj, sorted[i]))])

\* Decimal digits of a non-negative integer.
RECURSIVE Digits(_)
Digits(n) ==
    IF n < 10 THEN <<48 + n>> ELSE Digits(n \div 10) \o <<48 + (n % 10)>>

\* JSON.stringify of a number, array or object value.
RECURSIVE JSONStringify(_)
RECURSIVE JoinItems(_)
RECURSIVE JoinProps(_, _)
JoinItems(items) ==
    IF Len(items) = 0 THEN <<>>
    ELSE IF Len(items) = 1 THEN JSONStringify(items[1])
    ELSE JSONStringify(items[1]) \o Comma \o JoinItems(Tail(items))
JoinProps(keys, vals) ==
    IF Len(keys) = 0 THEN <<>>
    ELSE LET one == Quote \o keys[1] \o Quote \o Colon \o JSONStringify(vals[1])
         IN IF Len(keys) = 1 THEN one
            ELSE one \o Comma \o JoinProps(Tail(keys), Tail(vals))
JSONStringify(v) ==
    IF v.type = "number" THEN Digits(v.n)
    ELSE IF v.type = "array" THEN <<91>> \o JoinItems(v.items) \o <<93>>
    ELSE <<123>> \o JoinProps(v.keys, v.vals) \o <<125>>

\* generateKey(method, url, data): METHOD:url:dataKey.
generateKey(method, url, data) ==
    LET dataKey == IF data # Undefined
                   THEN JSONStringify(sortObjectKeys(data))
                   ELSE <<>>
    IN ToUpperCase(method) \o Colon \o url \o Colon \o dataKey


\* ------------------------------------------------------------------- maps
\* A Map is a function whose domain is the set of its keys.
EmptyMap == [k \in {} |-> 0]
MapHas(m, k) == k \in DOMAIN m
MapSet(m, k, v) == [x \in DOMAIN m \cup {k} |-> IF x = k THEN v ELSE m[x]]
MapDelete(m, k) == [x \in DOMAIN m \ {k} |-> m[x]]
MapSize(m) == Cardinality(DOMAIN m)

\* An argument or option that was not passed is an absent field.
NoFields == [k \in {} |-> 0]
Has(rec, field) == field \in DOMAIN rec
Only(rec, fields) == [f \in DOMAIN rec \cap fields |-> rec[f]]

\* ------------------------------------------------------------------ inputs
Methods == {StrPostLower, StrPostUpper}
Urls == {StrOrders}
\* {a: 1, b: 2} and {b: 2, a: 1}
DataAB == Obj(<<StrA, StrB>>, <<Num(1), Num(2)>>)
DataBA == Obj(<<StrB, StrA>>, <<Num(2), Num(1)>>)
Datas == {DataAB, DataBA}
\* "Post", "get"
StrPostMixed == <<80, 111, 115, 116>>
StrGet == <<103, 101, 116>>
KeyMethods == Methods \cup {StrPostMixed, StrGet}
\* Objects with the properties a and b written in either order, and arrays
\* of two elements, over the values vals.
ObjectsOver(vals) ==
    {Obj(<<StrA, StrB>>, <<x, y>>) : x \in vals, y \in vals}
      \cup {Obj(<<StrB, StrA>>, <<y, x>>) : x \in vals, y \in vals}
ArraysOver(vals) == {Arr(<<x, y>>) : x \in vals, y \in vals}
\* The data generateKey is given: nothing, numbers, and objects and arrays
\* nested in objects and arrays.
Leaves == {Num(1), Num(2)}
Nested == Leaves \cup ObjectsOver(Leaves) \cup ArraysOver(Leaves)
Inner == {Num(1), DataAB, DataBA,
          Arr(<<Num(1), Num(2)>>), Arr(<<Num(2), Num(1)>>)}
KeyDatas == {Undefined} \cup Nested \cup ObjectsOver(Inner) \cup ArraysOver(Inner)
\* The cool-down window callers ask for, when they ask for one.
BlockWindow == 2 * TickMs
BlockAfterCompleteValues == {0, BlockWindow}

\* ExecuteOptions: method and url, data and blockAfterComplete optional.
ExecuteOptionsSet ==
    { m @@ d @@ b :
        m \in [method : Methods, url : Urls],
        d \in {NoFields} \cup {[data |-> v] : v \in Datas},
        b \in {NoFields} \cup
              {[blockAfterComplete |-> t] : t \in BlockAfterCompleteValues} }

\* options.data, undefined when omitted.
DataOf(options) == IF Has(options, "data") THEN options.data ELSE Undefined

\* The key execute derives from its options.
KeyOf(options) == generateKey(options.method, options.url, DataOf(options))

\* Keys handed to deduplicate: the strings execute derives for the same
\* requests, so that both modes meet in the Pending table.
DeduplicateKeys == {KeyOf(o) : o \in ExecuteOptionsSet}

\* new RequestDeduplicator(options): requestTimeout, 30000 when not given.
ConstructorOptions == {NoFields, [requestTimeout |-> TickMs]}
Constructor(options) ==
    IF Has(options, "requestTimeout") THEN options.requestTimeout
    ELSE DefaultRequestTimeout

\* cleanup(maxAge) arguments and startAutoCleanup(intervalMs) arguments.
CleanupArgs == {NoFields, [maxAge |-> TickMs]}
IntervalArgs == {NoFields, [intervalMs |-> TickMs]}

\* ------------------------------------------------------------------- state
VARIABLES
    now,                \* Date.now()
    requestTimeout,     \* this.requestTimeout
    pending,            \* this.pending: key -> [promise, startTime]
    completed,          \* this.completed: key -> completion time
    cleanupIntervalId,  \* this.cleanupIntervalId, Null or a timer id
    timers,             \* the runtime's active interval timers
    timerSeq,           \* number of setInterval calls so far
    ops,                \* every invocation of a requestFn, in order
    calls,              \* every deduplicate/execute call, in order
    ret                 \* the step just taken: the call, its arguments and
                        \* what it returned or removed

vars == <<now, requestTimeout, pending, completed, cleanupIntervalId,
          timers, timerSeq, ops, calls, ret>>

Null == 0

\* ---------------------------------------------------------------- promises
Unsettled == [state |-> "pending"]
Fulfilled(value) == [state |-> "fulfilled", value |-> value]
Rejected(reason) == [state |-> "rejected", reason |-> reason]

\* The result object / the error object invocation id produces.
ResultOf(id) == [result |-> id]
ErrorOf(id) == [error |-> id]

\* new DuplicateRequestError(reason)
DuplicateRequestError(reason) ==
    [name |-> "DuplicateRequestError", reason |-> reason]

Init ==
    /\ now = StartTime
    /\ requestTimeout \in {Constructor(o) : o \in ConstructorOptions}
    /\ pending = EmptyMap
    /\ completed = EmptyMap
    /\ cleanupIntervalId = Null
    /\ timers = {}
    /\ timerSeq = 0
    /\ ops = <<>>
    /\ calls = <<>>
    /\ ret = [api |-> "constructor"]


\* ------------------------------------------------------ deduplicate/execute
\* options.blockAfterComplete && options.blockAfterComplete > 0
BlockPositive(options) ==
    /\ Has(options, "blockAfterComplete")
    /\ options.blockAfterComplete # 0
    /\ options.blockAfterComplete > 0

\* Mutant of InsideWindow: the comparison is turned round.
InsideWindowReversed(options, key) ==
    /\ MapHas(completed, key)
    /\ completed[key] # 0
    /\ now - completed[key] > options.blockAfterComplete

\* Mutant of InsideWindow: the window's end is included.
InsideWindowInclusive(options, key) ==
    /\ MapHas(completed, key)
    /\ completed[key] # 0
    /\ now - completed[key] <= options.blockAfterComplete

\* completedTime && now - completedTime < options.blockAfterComplete
InsideWindow(options, key) ==
    /\ MapHas(completed, key)
    /\ completed[key] # 0
    /\ now - completed[key] < options.blockAfterComplete

\* Mutant of RecentlyCompleted: any caller is checked, against the window
\* callers ask for, whether or not it asked for one.
RecentlyCompletedAnyCaller(options, key) ==
    /\ MapHas(completed, key)
    /\ completed[key] # 0
    /\ now - completed[key] < BlockWindow

\* Mutant of RecentlyCompleted: the Pending table is looked up first, so
\* that a call whose key has a Pending Entry is never turned away.
RecentlyCompletedUnlessPending(options, key) ==
    /\ ~MapHas(pending, key)
    /\ BlockPositive(options)
    /\ InsideWindow(options, key)

\* Step 1 of execute: the cool-down check throws.
RecentlyCompleted(options, key) ==
    BlockPositive(options) /\ InsideWindow(options, key)

\* A call: the invocation whose promise it returned (0: none) and the
\* outcome its caller has observed so far.
CallRecord(op, outcome) == [op |-> op, outcome |-> outcome]

\* The call just made, as the step's record.
CallStep(api, key, options) ==
    [api |-> api, key |-> key,
     options |-> Only(options, {"blockAfterComplete"})]

\* An invocation of requestFn whose promise is unsettled, with what the
\* handlers chained on it captured (key, options).
OpRecord(api, key, options) ==
    [state |-> "inflight", api |-> api, key |-> key,
     options |-> Only(options, {"blockAfterComplete"})]

\* An invocation that is over: its promise settled and the handlers ran;
\* nothing refers to what they captured any more.
OpDone(state) == [state |-> state]

\* Mutant of Launch: the entry is never stored (pending.set left out).
LaunchUnregistered(api, key, options, startTime) ==
    /\ ops' = Append(ops, OpRecord(api, key, options))
    /\ calls' = Append(calls, CallRecord(Len(ops) + 1, Unsettled))
    /\ UNCHANGED pending

\* requestFn() is invoked and returns its promise (the operation's contract:
\* one eventual result or failure); the handlers are chained on it, the
\* entry is stored under key and the chained promise is returned.
Launch(api, key, options, startTime) ==
    LET id == Len(ops) + 1
    IN /\ ops' = Append(ops, OpRecord(api, key, options))
       /\ pending' = MapSet(pending, key,
                            [promise |-> id, startTime |-> startTime])
       /\ calls' = Append(calls, CallRecord(id, Unsettled))

\* Mutant of Attach: the early return is missing and the call falls through
\* to invoking requestFn.
AttachMissing(api, key, options) == Launch(api, key, options, now)

\* return existing.promise: the caller's result follows the entry's promise.
Attach(api, key, options) ==
    /\ calls' = Append(calls, CallRecord(pending[key].promise, Unsettled))
    /\ UNCHANGED <<pending, ops>>

\* deduplicate(key, requestFn)
DeduplicateBody(key) ==
    /\ IF MapHas(pending, key)
       THEN Attach("deduplicate", key, NoFields)
       ELSE Launch("deduplicate", key, NoFields, now)
    /\ ret' = CallStep("deduplicate", key, NoFields)
    /\ UNCHANGED <<now, requestTimeout, completed, cleanupIntervalId,
                   timers, timerSeq>>

\* A deduplicate call, one of the MaxCalls calls of a run.
Deduplicate(key) == Len(calls) < MaxCalls /\ DeduplicateBody(key)

\* execute(options, requestFn)
ExecuteBody(options) ==
    LET key == KeyOf(options)
    IN /\ IF RecentlyCompleted(options, key)
          THEN /\ calls' = Append(calls,
                     CallRecord(0,
                         Rejected(DuplicateRequestError("recently_completed"))))
               /\ UNCHANGED <<pending, ops>>
          ELSE IF MapHas(pending, key)
          THEN Attach("execute", key, options)
          ELSE Launch("execute", key, options, now)
       /\ ret' = CallStep("execute", key, options)
       /\ UNCHANGED <<now, requestTimeout, completed, cleanupIntervalId,
                      timers, timerSeq>>

\* An execute call, one of the MaxCalls calls of a run.
Execute(options) == Len(calls) < MaxCalls /\ ExecuteBody(options)

\* ------------------------------------------- requestFn that calls back in
\* An invocation whose requestFn is still running, synchronously, inside the
\* call that invoked it: the call has looked up the tables (and read
\* Date.now() into startTime) and has not reached pending.set yet.
InvokingRecord(api, key, options, startTime) ==
    [state |-> "invoking", api |-> api, key |-> key,
     options |-> Only(options, {"blockAfterComplete"}),
     startTime |-> startTime]

\* The invocations whose requestFn is running; the latest is the innermost.
Invoking == {i \in 1..Len(ops) : ops[i].state = "invoking"}

\* requestFn() starts to run: the call becomes a frame on the stack.
Enter(api, key, options) ==
    /\ Len(calls) < MaxCalls
    /\ ops' = Append(ops, InvokingRecord(api, key, options, now))
    /\ calls' = Append(calls, CallRecord(Len(ops) + 1, Unsettled))
    /\ ret' = CallStep(api, key, options)
    /\ UNCHANGED <<now, requestTimeout, pending, completed, cleanupIntervalId,
                   timers, timerSeq>>

\* deduplicate(key, requestFn) up to the point where requestFn is running.
DeduplicateEnter(key) ==
    /\ ~MapHas(pending, key)
    /\ Enter("deduplicate", key, NoFields)

\* execute(options, requestFn) up to the point where requestFn is running.
ExecuteEnter(options) ==
    /\ ~RecentlyCompleted(options, KeyOf(options))
    /\ ~MapHas(pending, KeyOf(options))
    /\ Enter("execute", KeyOf(options), options)

\* The innermost running requestFn returns its promise: the handlers are
\* chained on it and the call stores its entry, over whatever is there.
RequestFnReturn ==
    /\ Invoking # {}
    /\ LET id == CHOOSE i \in Invoking : \A j \in Invoking : j <= i
           op == ops[id]
       IN /\ pending' = MapSet(pending, op.key,
                               [promise |-> id, startTime |-> op.startTime])
          /\ ops' = [ops EXCEPT ![id] = OpRecord(op.api, op.key, op.options)]
          /\ ret' = [api |-> "return", op |-> id, key |-> op.key]
    /\ UNCHANGED <<now, requestTimeout, completed, cleanupIntervalId, timers,
                   timerSeq, calls>>

\* ---------------------------------------------------- settlement handlers
\* Each handler gives the tables it leaves and the outcome of the promise
\* that was stored in the entry and returned to the callers.

\* Mutant of ExecuteOnFulfilled: the entry is removed only if it is still
\* the one this invocation registered (compared by identity).
ExecuteOnFulfilledOwnEntry(op, result) ==
    [pending |-> IF /\ MapHas(pending, op.key)
                    /\ ops[pending[op.key].promise] = op
                 THEN MapDelete(pending, op.key)
                 ELSE pending,
     completed |-> IF BlockPositive(op.options)
                   THEN MapSet(completed, op.key, now)
                   ELSE completed,
     outcome |-> Fulfilled(result)]

\* Mutant of ExecuteOnFulfilled: the record takes the time the call read
\* when it launched (the entry's startTime), not the time of settlement.
ExecuteOnFulfilledLaunchTime(op, result) ==
    [pending |-> MapDelete(pending, op.key),
     completed |-> IF BlockPositive(op.options)
                   THEN MapSet(completed, op.key,
                               IF MapHas(pending, op.key)
                               THEN pending[op.key].startTime
                               ELSE now)
                   ELSE completed,
     outcome |-> Fulfilled(result)]

\* .then(result => { pending.delete(key); if (block > 0) completed.set(key,
\* Date.now()); return result })
ExecuteOnFulfilled(op, result) ==
    [pending |-> MapDelete(pending, op.key),
     completed |-> IF BlockPositive(op.options)
                   THEN MapSet(completed, op.key, now)
                   ELSE completed,
     outcome |-> Fulfilled(result)]

\* Mutant of ExecuteOnRejected: the failure is recorded like a success.
ExecuteOnRejectedRecords(op, error) ==
    [pending |-> MapDelete(pending, op.key),
     completed |-> IF BlockPositive(op.options)
                   THEN MapSet(completed, op.key, now)
                   ELSE completed,
     outcome |-> Rejected(error)]

\* Mutant of ExecuteOnRejected: the failure is wrapped in a new error.
ExecuteOnRejectedWrapped(op, error) ==
    [pending |-> MapDelete(pending, op.key),
     completed |-> completed,
     outcome |-> Rejected([name |-> "Error", cause |-> error])]

\* .catch(error => { pending.delete(key); throw error })
ExecuteOnRejected(op, error) ==
    [pending |-> MapDelete(pending, op.key),
     completed |-> completed,
     outcome |-> Rejected(error)]

\* Mutant of DeduplicateFinally: the entry is removed only if it is still
\* the one this invocation registered (compared by identity).
DeduplicateFinallyOwnEntry(op, settled) ==
    [pending |-> IF /\ MapHas(pending, op.key)
                    /\ ops[pending[op.key].promise] = op
                 THEN MapDelete(pending, op.key)
                 ELSE pending,
     completed |-> completed,
     outcome |-> settled]

\* Mutant of DeduplicateFinally: a record is written as execute's success
\* handler would write it.
DeduplicateFinallyRecords(op, settled) ==
    [pending |-> MapDelete(pending, op.key),
     completed |-> MapSet(completed, op.key, now),
     outcome |-> settled]

\* .finally(() => { pending.delete(key) }): the outcome passes through.
DeduplicateFinally(op, settled) ==
    [pending |-> MapDelete(pending, op.key),
     completed |-> completed,
     outcome |-> settled]

\* The handlers chained on invocation id, run on its settlement.
Handlers(id, how) ==
    LET op == ops[id]
    IN IF op.api = "deduplicate"
       THEN DeduplicateFinally(op, IF how = "fulfilled"
                                   THEN Fulfilled(ResultOf(id))
                                   ELSE Rejected(ErrorOf(id)))
       ELSE IF how = "fulfilled"
       THEN ExecuteOnFulfilled(op, ResultOf(id))
       ELSE ExecuteOnRejected(op, ErrorOf(id))

\* The promise of invocation id settles: its handlers run, and every call
\* that returned this promise settles with the promise's outcome.
Settle(id, how) ==
    /\ id \in 1..Len(ops)
    /\ ops[id].state = "inflight"
    /\ LET after == Handlers(id, how)
       IN /\ pending' = after.pending
          /\ completed' = after.completed
          /\ calls' = [i \in 1..Len(calls) |->
                         IF calls[i].op = id
                         THEN [calls[i] EXCEPT !.outcome = after.outcome]
                         ELSE calls[i]]
    /\ ops' = [ops EXCEPT ![id] = OpDone(how)]
    /\ ret' = [api |-> "settle", op |-> id, by |-> ops[id].api,
               key |-> ops[id].key, how |-> how,
               removed |-> IF MapHas(pending, ops[id].key)
                           THEN {pending[ops[id].key].promise}
                           ELSE {}]
    /\ UNCHANGED <<now, requestTimeout, cleanupIntervalId, timers, timerSeq>>

\* ------------------------------------------------------- cleanup, lifecycle
\* Mutant of SweepCompleted: records of age maxAge are removed as well.
SweepCompletedInclusive(maxAge) ==
    [k \in {x \in DOMAIN completed : ~(now - completed[x] >= maxAge)}
       |-> completed[k]]

\* The Completed table after the first sweep of cleanup.
SweepCompleted(maxAge) ==
    [k \in {x \in DOMAIN completed : ~(now - completed[x] > maxAge)}
       |-> completed[k]]

\* Mutant of SweepPending: the default timeout is used, not the instance's.
SweepPendingDefaultTimeout ==
    [k \in {x \in DOMAIN pending :
               ~(now - pending[x].startTime > DefaultRequestTimeout)}
       |-> pending[k]]

\* The Pending table after the second sweep of cleanup.
SweepPending ==
    [k \in {x \in DOMAIN pending :
               ~(now - pending[x].startTime > requestTimeout)}
       |-> pending[k]]

\* The maxAge parameter with its default.
MaxAgeOf(args) == IF Has(args, "maxAge") THEN args.maxAge ELSE DefaultMaxAge

\* The body of cleanup(maxAge).
CleanupBody(maxAge) ==
    /\ completed' = SweepCompleted(maxAge)
    /\ pending' = SweepPending

\* cleanup(maxAge)
Cleanup(args) ==
    /\ CleanupBody(MaxAgeOf(args))
    /\ ret' = [api |-> "cleanup", maxAge |-> MaxAgeOf(args),
               removed |-> DOMAIN completed \ DOMAIN completed',
               evicted |-> DOMAIN pending \ DOMAIN pending']
    /\ UNCHANGED <<now, requestTimeout, cleanupIntervalId, timers, timerSeq,
                   ops, calls>>

\* The intervalMs parameter with its default.
IntervalOf(args) ==
    IF Has(args, "intervalMs") THEN args.intervalMs ELSE DefaultIntervalMs

\* Mutant of StartAutoCleanup: the early return is missing, so that a second
\* start sets a second interval timer and forgets the first one's id.
StartAutoCleanupUnguarded(args) ==
    /\ timerSeq < MaxTimers
    /\ timerSeq' = timerSeq + 1
    /\ timers' = timers \cup
           {[id |-> timerSeq + 1, intervalMs |-> IntervalOf(args),
             due |-> now + IntervalOf(args)]}
    /\ cleanupIntervalId' = timerSeq + 1
    /\ ret' = [api |-> "startAutoCleanup", intervalMs |-> IntervalOf(args)]
    /\ UNCHANGED <<now, requestTimeout, pending, completed, ops, calls>>

\* startAutoCleanup(intervalMs)
StartAutoCleanup(args) ==
    /\ IF cleanupIntervalId # Null
       THEN UNCHANGED <<cleanupIntervalId, timers, timerSeq>>
       ELSE /\ timerSeq < MaxTimers
            /\ timerSeq' = timerSeq + 1
            /\ timers' = timers \cup
                   {[id |-> timerSeq + 1, intervalMs |-> IntervalOf(args),
                     due |-> now + IntervalOf(args)]}
            /\ cleanupIntervalId' = timerSeq + 1
    /\ ret' = [api |-> "startAutoCleanup", intervalMs |-> IntervalOf(args)]
    /\ UNCHANGED <<now, requestTimeout, pending, completed, ops, calls>>

\* stopAutoCleanup()
StopAutoCleanup ==
    /\ IF cleanupIntervalId # Null
       THEN /\ timers' = {t \in timers : t.id # cleanupIntervalId}
            /\ cleanupIntervalId' = Null
       ELSE UNCHANGED <<cleanupIntervalId, timers>>
    /\ ret' = [api |-> "stopAutoCleanup"]
    /\ UNCHANGED <<now, requestTimeout, pending, completed, timerSeq, ops,
                   calls>>

\* An active interval timer comes due and runs () => this.cleanup().
TimerFire(t) ==
    /\ t \in timers
    /\ now >= t.due
    /\ CleanupBody(DefaultMaxAge)
    /\ timers' = (timers \ {t}) \cup {[t EXCEPT !.due = t.due + t.intervalMs]}
    /\ ret' = [api |-> "timer", id |-> t.id,
               removed |-> DOMAIN completed \ DOMAIN completed',
               evicted |-> DOMAIN pending \ DOMAIN pending']
    /\ UNCHANGED <<now, requestTimeout, cleanupIntervalId, timerSeq, ops,
                   calls>>

\* The value getStats() returns.
Stats ==
    [pendingCount |-> MapSize(pending), completedCount |-> MapSize(completed)]

\* getStats()
GetStats ==
    /\ ret' = [api |-> "getStats", value |-> Stats]
    /\ UNCHANGED <<now, requestTimeout, pending, completed, cleanupIntervalId,
                   timers, timerSeq, ops, calls>>

\* Mutant of ClearBody: only the Pending table is emptied.
ClearPendingOnly ==
    /\ pending' = EmptyMap
    /\ UNCHANGED completed

\* The body of clear().
ClearBody ==
    /\ pending' = EmptyMap
    /\ completed' = EmptyMap

\* clear()
Clear ==
    /\ ClearBody
    /\ ret' = [api |-> "clear", cleared |-> Stats]
    /\ UNCHANGED <<now, requestTimeout, cleanupIntervalId, timers, timerSeq,
                   ops, calls>>

\* Time passes.
Tick ==
    /\ now + TickMs <= EndTime
    /\ now' = now + TickMs
    /\ ret' = [api |-> "tick"]
    /\ UNCHANGED <<requestTimeout, pending, completed, cleanupIntervalId,
                   timers, timerSeq, ops, calls>>

\* The calls on the tables, the settlements and the clock.
Next ==
    \/ \E key \in DeduplicateKeys : Deduplicate(key)
    \/ \E options \in ExecuteOptionsSet : Execute(options)
    \/ \E id \in 1..Len(ops), how \in {"fulfilled", "rejected"} : Settle(id, how)
    \/ \E args \in CleanupArgs : Cleanup(args)
    \/ Clear
    \/ Tick

Spec == Init /\ [][Next]_vars

\* Runs in which no Pending Entry is evicted: no clear(), and cleanup() only
\* where its sweep of the Pending table removes nothing.
NextUndisturbed ==
    \/ \E key \in DeduplicateKeys : Deduplicate(key)
    \/ \E options \in ExecuteOptionsSet : Execute(options)
    \/ \E id \in 1..Len(ops), how \in {"fulfilled", "rejected"} : Settle(id, how)
    \/ \E args \in CleanupArgs : Cleanup(args) /\ DOMAIN pending' = DOMAIN pending
    \/ Tick

SpecUndisturbed == Init /\ [][NextUndisturbed]_vars

\* The system with operations that call deduplicate/execute synchronously
\* while they are being invoked: calls nest, and settlements, cleanup(),
\* clear() and the clock wait until the stack is empty.
NextReentrant ==
    \/ \E key \in DeduplicateKeys : DeduplicateEnter(key)
    \/ \E options \in ExecuteOptionsSet : ExecuteEnter(options)
    \/ RequestFnReturn
    \/ \E key \in DeduplicateKeys : Deduplicate(key)
    \/ \E options \in ExecuteOptionsSet : Execute(options)
    \/ Invoking = {} /\ \E id \in 1..Len(ops), how \in {"fulfilled", "rejected"} :
                            Settle(id, how)
    \/ Invoking = {} /\ \E args \in CleanupArgs : Cleanup(args)
    \/ Invoking = {} /\ Clear
    \/ Invoking = {} /\ Tick

SpecReentrant == Init /\ [][NextReentrant]_vars

\* The requests for one key: POST /orders without data, with each value of
\* blockAfterComplete.
OneKeyOptionsSet ==
    {o \in ExecuteOptionsSet : ~Has(o, "data") /\ o.method = StrPostUpper}

\* The system under one more call than MaxCalls, all for one key, so that
\* a call can meet a Completed Record and a Pending Entry of its key at
\* once.
NextOneKey ==
    \/ \E options \in OneKeyOptionsSet :
          /\ Len(calls) < MaxCalls + 1
          /\ DeduplicateBody(KeyOf(options))
    \/ \E options \in OneKeyOptionsSet :
          /\ Len(calls) < MaxCalls + 1
          /\ ExecuteBody(options)
    \/ \E id \in 1..Len(ops), how \in {"fulfilled", "rejected"} : Settle(id, how)
    \/ \E args \in CleanupArgs : Cleanup(args)
    \/ Clear
    \/ Tick

SpecOneKey == Init /\ [][NextOneKey]_vars

\* generateKey(method, url, data) called on its own; it reads and writes no
\* state of the instance.
GenerateKey(method, url, data) ==
    /\ ret' = [api |-> "generateKey", method |-> method, url |-> url,
               data |-> data, value |-> generateKey(method, url, data)]
    /\ UNCHANGED <<now, requestTimeout, pending, completed, cleanupIntervalId,
                   timers, timerSeq, ops, calls>>

NextKey ==
    \E method \in KeyMethods, url \in Urls, data \in KeyDatas :
        GenerateKey(method, url, data)

SpecKey == Init /\ [][NextKey]_vars

\* ------------------------------------------------------------ error handler
\* src/src/error/handler.ts, copied into deduplicator.ts from line 205 on.
\* Messages are strings; a code is a number or a string value.
Str(s) == [type |-> "string", s |-> s]

ErrorCodeRangeConfig(start, end, defaultMessage, isRetryable) ==
    [start |-> start, end |-> end, defaultMessage |-> defaultMessage,
     isRetryable |-> isRetryable]

DEFAULT_ERROR_RANGES ==
    <<ErrorCodeRangeConfig(100000, 200000,
                           "System error, please try again later", TRUE),
      ErrorCodeRangeConfig(200000, 300000, "Authentication required", FALSE),
      ErrorCodeRangeConfig(300000, 400000,
                           "Operation failed, please retry", TRUE),
      ErrorCodeRangeConfig(400000, 500000, "Data processing failed", FALSE),
      ErrorCodeRangeConfig(500000, 600000,
                           "Service temporarily unavailable", TRUE)>>

\* The default of getUserFriendlyMessage's fallback parameter.
DefaultFallback == "Operation failed, please retry"

\* The result of the loop when no range matches.
NoRange == [none |-> TRUE]

\* Mutant of FindRange: the end of a range belongs to it.
RECURSIVE FindRangeClosed(_, _)
FindRangeClosed(errorCode, ranges) ==
    IF Len(ranges) = 0 THEN NoRange
    ELSE IF errorCode >= ranges[1].start /\ errorCode <= ranges[1].end
    THEN ranges[1]
    ELSE FindRangeClosed(errorCode, Tail(ranges))

\* for (const range of ranges) if (errorCode >= range.start && errorCode <
\* range.end) return ...: the range the loop returns from.
RECURSIVE FindRange(_, _)
FindRange(errorCode, ranges) ==
    IF Len(ranges) = 0 THEN NoRange
    ELSE IF errorCode >= ranges[1].start /\ errorCode < ranges[1].end
    THEN ranges[1]
    ELSE FindRange(errorCode, Tail(ranges))

\* The parameters with their defaults.
MessagesOf(args) == IF Has(args, "messages") THEN args.messages ELSE EmptyMap
RangesOf(args) ==
    IF Has(args, "ranges") THEN args.ranges ELSE DEFAULT_ERROR_RANGES
FallbackOf(args) ==
    IF Has(args, "fallback") THEN args.fallback ELSE DefaultFallback

\* Mutant of getUserFriendlyMessage: the ranges are looked at before the
\* predefined messages.
getUserFriendlyMessageRangesFirst(errorCode, args) ==
    LET messages == MessagesOf(args)
        range == FindRange(errorCode, RangesOf(args))
    IN IF range # NoRange THEN range.defaultMessage
       ELSE IF MapHas(messages, errorCode) /\ messages[errorCode] # ""
       THEN messages[errorCode]
       ELSE FallbackOf(args)

\* getUserFriendlyMessage(errorCode, messages, ranges, fallback)
getUserFriendlyMessage(errorCode, args) ==
    LET messages == MessagesOf(args)
        range == FindRange(errorCode, RangesOf(args))
    IN IF MapHas(messages, errorCode) /\ messages[errorCode] # ""
       THEN messages[errorCode]
       ELSE IF range # NoRange THEN range.defaultMessage
       ELSE FallbackOf(args)

\* isRetryableError(errorCode, ranges)
isRetryableError(errorCode, args) ==
    LET range == FindRange(errorCode, RangesOf(args))
    IN IF range # NoRange THEN range.isRetryable ELSE FALSE

\* new ErrorHandler(options): messages ?? {}, ranges ?? DEFAULT_ERROR_RANGES
ErrorHandler(options) ==
    [messages |-> MessagesOf(options), ranges |-> RangesOf(options)]

\* normalizeError(error).code for an error object: code ?? 'UNKNOWN_ERROR'
NormalizedCode(error) ==
    IF Has(error, "code") THEN error.code ELSE Str("UNKNOWN_ERROR")

\* Mutant of ErrorCodeOf: a code that is not a number counts as the first
\* code of the first default range.
ErrorCodeOfFirstRange(error) ==
    IF NormalizedCode(error).type = "number" THEN NormalizedCode(error).n
    ELSE DEFAULT_ERROR_RANGES[1].start

\* typeof normalized.code === 'number' ? normalized.code : 0
ErrorCodeOf(error) ==
    IF NormalizedCode(error).type = "number" THEN NormalizedCode(error).n
    ELSE 0

\* handleError(error): the fields computed from the code.
handleError(handler, error) ==
    [userMessage |-> getUserFriendlyMessage(ErrorCodeOf(error),
                        [messages |-> handler.messages,
                         ranges |-> handler.ranges]),
     code |-> NormalizedCode(error),
     isRetryable |-> isRetryableError(ErrorCodeOf(error),
                                      [ranges |-> handler.ranges])]

\* Codes at, below and above the ends of the default ranges.
ErrorCodes ==
    {0, 99999, 100000, 199999, 200000, 299999, 300000, 599999, 600000}
\* Range lists: the default, none, two that overlap, one that holds 0.
RangeLists ==
    {DEFAULT_ERROR_RANGES,
     <<>>,
     <<ErrorCodeRangeConfig(100000, 300000, "First", FALSE),
       ErrorCodeRangeConfig(200000, 400000, "Second", TRUE)>>,
     <<ErrorCodeRangeConfig(0, 100000, "Low", TRUE)>>}
\* Predefined messages: none, one, an empty one, one for code 0.
MessageTables ==
    {EmptyMap, 100000 :> "Custom", 200000 :> "", 0 :> "Zero"}
MessageArgs ==
    { m @@ r @@ f :
        m \in {NoFields} \cup {[messages |-> t] : t \in MessageTables},
        r \in {NoFields} \cup {[ranges |-> l] : l \in RangeLists},
        f \in {NoFields, [fallback |-> "Try later"]} }
RetryArgs == {NoFields} \cup {[ranges |-> l] : l \in RangeLists}
HandlerOptions ==
    { m @@ r :
        m \in {NoFields} \cup {[messages |-> t] : t \in MessageTables},
        r \in {NoFields} \cup {[ranges |-> l] : l \in RangeLists} }
\* Error objects: with a numeric code, with a string code, without a code.
Errors ==
    {[code |-> Num(c)] : c \in ErrorCodes}
      \cup {[code |-> Str("E_TIMEOUT")], NoFields}

GetUserFriendlyMessage(errorCode, args) ==
    /\ ret' = [api |-> "getUserFriendlyMessage", errorCode |-> errorCode,
               args |-> args, value |-> getUserFriendlyMessage(errorCode, args)]
    /\ UNCHANGED <<now, requestTimeout, pending, completed, cleanupIntervalId,
                   timers, timerSeq, ops, calls>>

IsRetryableError(errorCode, args) ==
    /\ ret' = [api |-> "isRetryableError", errorCode |-> errorCode,
               args |-> args, value |-> isRetryableError(errorCode, args)]
    /\ UNCHANGED <<now, requestTimeout, pending, completed, cleanupIntervalId,
                   timers, timerSeq, ops, calls>>

HandleError(options, error) ==
    /\ ret' = [api |-> "handleError", options |-> options, error |-> error,
               value |-> handleError(ErrorHandler(options), error)]
    /\ UNCHANGED <<now, requestTimeout, pending, completed, cleanupIntervalId,
                   timers, timerSeq, ops, calls>>

NextError ==
    \/ \E errorCode \in ErrorCodes, args \in MessageArgs :
          GetUserFriendlyMessage(errorCode, args)
    \/ \E errorCode \in ErrorCodes, args \in RetryArgs :
          IsRetryableError(errorCode, args)
    \/ \E options \in HandlerOptions, error \in Errors :
          HandleError(options, error)

SpecError == Init /\ [][NextError]_vars

\* The instance constructed when Date.now() is 0 (a clock that counts from
\* the start of the run, as a test's fake timer does).
InitZero ==
    /\ now = 0
    /\ requestTimeout \in {Constructor(o) : o \in ConstructorOptions}
    /\ pending = EmptyMap
    /\ completed = EmptyMap
    /\ cleanupIntervalId = Null
    /\ timers = {}
    /\ timerSeq = 0
    /\ ops = <<>>
    /\ calls = <<>>
    /\ ret = [api |-> "constructor"]

SpecZero == InitZero /\ [][Next]_vars

\* The system observed through getStats().
NextStats ==
    \/ Next
    \/ GetStats

SpecStats == Init /\ [][NextStats]_vars

\* The execute calls that ask for a cool-down window on the key of a
\* request without data.
WindowOptionsSet ==
    {o \in ExecuteOptionsSet : BlockPositive(o) /\ ~Has(o, "data")}

\* The system with the auto-cleanup timer in use: execute calls that ask for
\* a window, successful settlements, cleanup() by hand and by the timer,
\* clear() and the clock.
NextAuto ==
    \/ \E options \in WindowOptionsSet : Execute(options)
    \/ \E id \in 1..Len(ops) : Settle(id, "fulfilled")
    \/ \E args \in CleanupArgs : Cleanup(args)
    \/ Clear
    \/ Tick
    \/ \E args \in IntervalArgs : StartAutoCleanup(args)
    \/ StopAutoCleanup
    \/ \E t \in timers : TimerFire(t)

SpecAuto == Init /\ [][NextAuto]_vars

\* ================================================================== claims
\* The invocations for key k whose promise is unsettled.
InFlightFor(k) ==
    {i \in 1..Len(ops) : ops[i].state = "inflight" /\ ops[i].key = k}

\* The calls that returned the promise of invocation id.
CallersOf(id) == {c \in 1..Len(calls) : calls[c].op = id}

\* What a caller that returned the promise of invocation id has observed.
ObservedFrom(id) ==
    IF ops[id].state = "inflight" THEN Unsettled
    ELSE IF ops[id].state = "fulfilled" THEN Fulfilled(ResultOf(id))
    ELSE Rejected(ErrorOf(id))

\* This step is a deduplicate or execute call; ret' describes it and
\* NewCall is its record.
IsCallStep == Len(calls') = Len(calls) + 1
IsExecuteStep == IsCallStep /\ ret'.api = "execute"
NewCall == calls'[Len(calls')]

\* The step's caller asked for a cool-down window T > 0.
AsksWindow == Has(ret'.options, "blockAfterComplete")
                 /\ ret'.options.blockAfterComplete > 0

\* The call was turned away by the cool-down check.
RejectedRecently ==
    CallRecord(0, Rejected(DuplicateRequestError("recently_completed")))

\* The step invokes requestFn once and returns the promise chained on it.
InvokesAnew == /\ Len(ops') = Len(ops) + 1
               /\ NewCall = CallRecord(Len(ops'), Unsettled)

\* C1: with no Pending Entry evicted by cleanup() and no clear() in the run,
\* in every reachable state at most one invoked operation per key is
\* unsettled, whatever deduplicate and execute calls and settlements
\* happened.
C1_AtMostOneInFlight ==
    \A k \in DeduplicateKeys : Cardinality(InFlightFor(k)) <= 1

\* C1 witness: two calls for one key share its single unsettled invocation.
C1_Witness ==
    \E id \in 1..Len(ops) :
        /\ ops[id].state = "inflight"
        /\ Cardinality(CallersOf(id)) >= 2

\* C2 as stated: every call issued while the operation first invoked for
\* its key is unsettled invokes nothing and returns that operation's
\* promise, and every caller observes the outcome of the invocation whose
\* promise it returned.
C2_Original ==
    /\ [][IsCallStep /\ InFlightFor(ret'.key) # {} =>
            /\ ops' = ops
            /\ NewCall.op = CHOOSE i \in InFlightFor(ret'.key) :
                               \A j \in InFlightFor(ret'.key) : i <= j]_vars
    /\ [](\A c \in 1..Len(calls) :
             calls[c].op # 0 => calls[c].outcome = ObservedFrom(calls[c].op))

\* C2 amended: every call issued while the Pending Entry of its key is in
\* the table invokes nothing, and returns the entry's promise unless it is an
\* execute call turned away by the cool-down check; every caller that
\* returned an invocation's promise observes that invocation's outcome, the
\* same value on success and the same failure on failure.
C2_SharedInvocation ==
    /\ [][IsCallStep /\ MapHas(pending, ret'.key) =>
            /\ ops' = ops
            /\ \/ NewCall = CallRecord(pending[ret'.key].promise, Unsettled)
               \/ ret'.api = "execute" /\ NewCall = RejectedRecently]_vars
    /\ [](\A c \in 1..Len(calls) :
             calls[c].op # 0 => calls[c].outcome = ObservedFrom(calls[c].op))

\* C2 witness: one invocation has settled and two callers observed it.
C2_Witness ==
    \E id \in 1..Len(ops) :
        /\ ops[id].state # "inflight"
        /\ Cardinality(CallersOf(id)) >= 2
        /\ \A c \in CallersOf(id) : calls[c].outcome.state # "pending"

\* C3: an execute call asking for a window T > 0 while a Completed Record
\* of its key has age < T fails with DuplicateRequestError
\* 'recently_completed', invokes nothing and changes neither table.
C3_RejectsInsideWindow ==
    [][IsExecuteStep /\ AsksWindow /\ MapHas(completed, ret'.key)
         /\ now - completed[ret'.key] < ret'.options.blockAfterComplete =>
            /\ NewCall = RejectedRecently
            /\ UNCHANGED <<ops, pending, completed>>]_vars

\* C3 witness: the call just made was turned away by the cool-down check.
C3_Witness ==
    /\ ret.api = "execute"
    /\ calls[Len(calls)] = RejectedRecently
    /\ now - completed[ret.key] < ret.options.blockAfterComplete

\* C4: an execute call asking for a window T > 0, made when the Completed
\* Record of its key has age >= T and no Pending Entry exists for it, is
\* not rejected: it invokes the operation and registers a new Pending Entry
\* started now.
C4_ProceedsAfterWindow ==
    [][IsExecuteStep /\ AsksWindow /\ MapHas(completed, ret'.key)
         /\ now - completed[ret'.key] >= ret'.options.blockAfterComplete
         /\ ~MapHas(pending, ret'.key) =>
            /\ InvokesAnew
            /\ pending' = MapSet(pending, ret'.key,
                                 [promise |-> Len(ops'), startTime |-> now])
            /\ UNCHANGED completed]_vars

\* C4 witness: the call just made launched an invocation although a
\* Completed Record of its key exists, the window having elapsed.
C4_Witness ==
    /\ ret.api = "execute"
    /\ Has(ret.options, "blockAfterComplete")
    /\ ret.options.blockAfterComplete > 0
    /\ MapHas(completed, ret.key)
    /\ now - completed[ret.key] >= ret.options.blockAfterComplete
    /\ MapHas(pending, ret.key)
    /\ pending[ret.key] = [promise |-> Len(ops), startTime |-> now]
    /\ calls[Len(calls)].op = Len(ops)

\* C5: an execute call whose blockAfterComplete is 0 or omitted never fails
\* with 'recently_completed', also when a Completed Record of its key exists.
C5_NoWindowNeverRejected ==
    [][IsExecuteStep /\ ~AsksWindow => NewCall # RejectedRecently]_vars

\* C5 witness: an execute call without a window was just made while the
\* Completed Record of its key is inside the window other callers ask for.
C5_Witness ==
    /\ ret.api = "execute"
    /\ ~Has(ret.options, "blockAfterComplete")
    /\ MapHas(completed, ret.key)
    /\ now - completed[ret.key] < BlockWindow
    /\ calls[Len(calls)].op # 0

\* C6: when an operation launched by execute fails, the Pending Entry of
\* its key is removed and the Completed table is left as it was, whatever
\* blockAfterComplete was; an execute call for the same key made right after
\* the failure invokes the operation again, unless a Completed Record of an
\* earlier success is still inside the caller's window.
C6_FailureLeavesNoRecord ==
    [][/\ ret'.api = "settle" /\ ret'.how = "rejected" /\ ret'.by = "execute" =>
            /\ ~MapHas(pending', ret'.key)
            /\ completed' = completed
       /\ ret.api = "settle" /\ ret.how = "rejected" /\ ret.by = "execute"
            /\ IsExecuteStep /\ ret'.key = ret.key
            /\ ~(AsksWindow /\ MapHas(completed, ret'.key)
                   /\ now - completed[ret'.key]
                        < ret'.options.blockAfterComplete) =>
            InvokesAnew]_vars

\* C6 witness: an operation launched by execute with a positive
\* blockAfterComplete has just failed; its key has neither a Pending Entry
\* nor a Completed Record.
C6_Witness ==
    /\ ret.api = "settle" /\ ret.how = "rejected" /\ ret.by = "execute"
    /\ \E c \in CallersOf(ret.op) : calls[c].outcome = Rejected(ErrorOf(ret.op))
    /\ ~MapHas(pending, ret.key)
    /\ ~MapHas(completed, ret.key)
    /\ Len(calls) < MaxCalls

\* C7: a call fails only as an execute call turned away by the cool-down
\* check, with DuplicateRequestError 'recently_completed', or with the
\* failure of the operation whose promise it returned; that failure reaches
\* the launching caller and every attached caller as the operation's own
\* error value, unwrapped, in the step that removes the Pending Entry of the
\* key.
C7_OnlyOwnFailures ==
    /\ [](\A c \in 1..Len(calls) :
             calls[c].outcome.state = "rejected" =>
                IF calls[c].op = 0
                THEN calls[c] = RejectedRecently
                ELSE /\ ops[calls[c].op].state = "rejected"
                     /\ calls[c].outcome = Rejected(ErrorOf(calls[c].op)))
    /\ [][/\ IsCallStep /\ NewCall.outcome.state = "rejected" =>
               /\ ret'.api = "execute"
               /\ AsksWindow
               /\ MapHas(completed, ret'.key)
               /\ now - completed[ret'.key] < ret'.options.blockAfterComplete
          /\ ret'.api = "settle" /\ ret'.how = "rejected" =>
               /\ ~MapHas(pending', ret'.key)
               /\ \A c \in CallersOf(ret'.op) :
                     /\ calls[c].outcome = Unsettled
                     /\ calls'[c].outcome = Rejected(ErrorOf(ret'.op))]_vars

\* C7 witness: an operation has just failed, and its launching caller and
\* an attached caller both hold its error; the key has no Pending Entry.
C7_Witness ==
    /\ ret.api = "settle" /\ ret.how = "rejected"
    /\ Cardinality(CallersOf(ret.op)) >= 2
    /\ \A c \in CallersOf(ret.op) : calls[c].outcome = Rejected(ErrorOf(ret.op))
    /\ ~MapHas(pending, ret.key)

\* C8: cleanup(maxAge) leaves exactly the Completed Records of age <= maxAge,
\* each with its timestamp, removes the others and adds none.
C8_CleanupCompletedExact ==
    [][ret'.api = "cleanup" =>
          /\ DOMAIN completed' =
                {k \in DOMAIN completed : now - completed[k] <= ret'.maxAge}
          /\ \A k \in DOMAIN completed' : completed'[k] = completed[k]]_vars

\* C8 witness: cleanup has just removed a record and left one whose age
\* equals maxAge.
C8_Witness ==
    /\ ret.api = "cleanup"
    /\ ret.removed # {}
    /\ \E k \in DOMAIN completed : now - completed[k] = ret.maxAge

C10_ClearThenStats ==
    [][/\ ret'.api = "clear" =>
            pending' = EmptyMap /\ completed' = EmptyMap
       /\ ret'.api = "getStats" =>
            /\ ret'.value = [pendingCount |-> Cardinality(DOMAIN pending),
                             completedCount |-> Cardinality(DOMAIN completed)]
            /\ UNCHANGED <<pending, completed>>
       /\ ret.api = "clear" /\ ret'.api = "getStats" =>
            ret'.value = [pendingCount |-> 0, completedCount |-> 0]]_vars

\* C10 witness: clear() has just emptied tables that both held entries.
C10_Witness ==
    /\ ret.api = "clear"
    /\ ret.cleared.pendingCount > 0
    /\ ret.cleared.completedCount > 0
    /\ Stats = [pendingCount |-> 0, completedCount |-> 0]

\* C11: at most one auto-cleanup timer is active, and one is active exactly
\* when the most recent of the startAutoCleanup/stopAutoCleanup calls was a
\* start: a start leaves a timer active, and while one is active it neither
\* sets a second timer nor changes the interval of the first; a stop leaves
\* none; no other step, clear() and cleanup() included, changes which timer
\* is active or its interval.
C11_SingleTimer ==
    /\ [](/\ Cardinality(timers) <= 1
          /\ cleanupIntervalId # Null <=> timers # {}
          /\ \A t \in timers : t.id = cleanupIntervalId)
    /\ [][/\ ret'.api = "startAutoCleanup" =>
               /\ cleanupIntervalId' # Null
               /\ IF cleanupIntervalId # Null
                  THEN UNCHANGED <<cleanupIntervalId, timers>>
                  ELSE \E t \in timers' :
                          /\ timers' = {t}
                          /\ t.id = cleanupIntervalId'
                          /\ t.intervalMs = ret'.intervalMs
          /\ ret'.api = "stopAutoCleanup" =>
               timers' = {} /\ cleanupIntervalId' = Null
          /\ ret'.api \in {"clear", "cleanup"} =>
               UNCHANGED <<cleanupIntervalId, timers>>
          /\ ret'.api \notin {"startAutoCleanup", "stopAutoCleanup"} =>
               /\ cleanupIntervalId' = cleanupIntervalId
               /\ {<<t.id, t.intervalMs>> : t \in timers'} =
                     {<<t.id, t.intervalMs>> : t \in timers}]_vars

\* C11 witness: startAutoCleanup has just been called with another interval
\* while a timer set after an earlier stop is active, and that timer is
\* still the only one.
C11_Witness ==
    /\ ret.api = "startAutoCleanup"
    /\ timerSeq >= 2
    /\ \E t \in timers : timers = {t} /\ t.intervalMs # ret.intervalMs

\* Two strings are equal ignoring the case of ASCII letters.
EqualIgnoringCase(a, b) ==
    /\ Len(a) = Len(b)
    /\ \A i \in 1..Len(a) :
          \/ a[i] = b[i]
          \/ a[i] \in 65..90 /\ b[i] = a[i] + 32
          \/ a[i] \in 97..122 /\ b[i] = a[i] - 32

\* Two values are structurally equal up to the order of object keys, at
\* every depth.
RECURSIVE SameData(_, _)
SameData(x, y) ==
    /\ x.type = y.type
    /\ IF x.type = "number" THEN x.n = y.n
       ELSE IF x.type = "array"
       THEN /\ Len(x.items) = Len(y.items)
            /\ \A i \in 1..Len(x.items) : SameData(x.items[i], y.items[i])
       ELSE IF x.type = "object"
       THEN /\ {x.keys[i] : i \in 1..Len(x.keys)} =
                 {y.keys[i] : i \in 1..Len(y.keys)}
            /\ \A i \in 1..Len(x.keys) :
                  SameData(x.vals[i], PropertyOf(y, x.keys[i]))
       ELSE TRUE

\* Two values are not structurally equal, and differ only in the order of
\* the elements of arrays in them.
RECURSIVE ReorderedArrays(_, _)
ReorderedArrays(x, y) ==
    /\ ~SameData(x, y)
    /\ x.type = y.type
    /\ IF x.type = "array"
       THEN /\ Len(x.items) = Len(y.items)
            /\ \/ \E p \in Permutations(1..Len(x.items)) :
                     \A i \in 1..Len(x.items) :
                        SameData(x.items[i], y.items[p[i]])
               \/ \A i \in 1..Len(x.items) :
                     \/ SameData(x.items[i], y.items[i])
                     \/ ReorderedArrays(x.items[i], y.items[i])
       ELSE IF x.type = "object"
       THEN /\ {x.keys[i] : i \in 1..Len(x.keys)} =
                 {y.keys[i] : i \in 1..Len(y.keys)}
            /\ \A i \in 1..Len(x.keys) :
                  \/ SameData(x.vals[i], PropertyOf(y, x.keys[i]))
                  \/ ReorderedArrays(x.vals[i], PropertyOf(y, x.keys[i]))
       ELSE FALSE

C13_Original ==
    /\ [][IsExecuteStep /\ MapHas(pending, ret'.key) =>
            /\ ops' = ops
            /\ NewCall = CallRecord(pending[ret'.key].promise, Unsettled)]_vars
    /\ [](\A c \in 1..Len(calls) :
             calls[c].outcome # Rejected(DuplicateRequestError("in_progress")))

\* C13 amended: an execute call made while a Pending Entry of its key
\* exists invokes nothing and leaves the tables as they are; it returns the
\* entry's promise, except that a call asking for a window T > 0 while a
\* Completed Record of the key has age < T fails with 'recently_completed'
\* (the cool-down check comes first); no call ever fails with reason
\* 'in_progress'.
C13_AttachesUnlessCooling ==
    /\ [][IsExecuteStep /\ MapHas(pending, ret'.key) =>
            /\ UNCHANGED <<ops, pending, completed>>
            /\ IF /\ AsksWindow
                  /\ MapHas(completed, ret'.key)
                  /\ now - completed[ret'.key]
                       < ret'.options.blockAfterComplete
               THEN NewCall = RejectedRecently
               ELSE NewCall =
                      CallRecord(pending[ret'.key].promise, Unsettled)]_vars
    /\ [](\A c \in 1..Len(calls) :
             calls[c].outcome # Rejected(DuplicateRequestError("in_progress")))

\* C13 witness: an execute call without a window has just attached to the
\* Pending Entry of its key while a Completed Record of that key is inside
\* the window other callers ask for.
C13_Witness ==
    /\ ret.api = "execute"
    /\ ~Has(ret.options, "blockAfterComplete")
    /\ MapHas(completed, ret.key)
    /\ now - completed[ret.key] < BlockWindow
    /\ MapHas(pending, ret.key)
    /\ calls[Len(calls)] = CallRecord(pending[ret.key].promise, Unsettled)
    /\ Cardinality(CallersOf(pending[ret.key].promise)) >= 2

\* C14: the settlement of an invocation, by success or failure, removes
\* whatever Pending Entry is stored under its key and no other, also after
\* clear() or cleanup() ran while it was in flight; whenever every
\* invocation has settled, the Pending table is empty.
C14_NoKeyStuck ==
    /\ [][ret'.api = "settle" =>
            /\ ops[ret'.op].state = "inflight"
            /\ ops'[ret'.op].state = ret'.how
            /\ pending' = MapDelete(pending, ret'.key)]_vars
    /\ []((\A i \in 1..Len(ops) : ops[i].state # "inflight") =>
             pending = EmptyMap)

\* C14 witness: the last of several invocations has just settled, one of
\* them by failure, and the Pending table is empty.
C14_Witness ==
    /\ ret.api = "settle"
    /\ Len(ops) >= 2
    /\ \A i \in 1..Len(ops) : ops[i].state # "inflight"
    /\ \E i \in 1..Len(ops) : ops[i].state = "rejected"
    /\ pending = EmptyMap

\* C15: the check for an existing Pending Entry and the registration of the
\* new entry are atomic with respect to every other call with the same key:
\* no deduplicate or execute call, one issued from inside the operation
\* while it is being invoked included, looks up the Pending table for a key
\* between the check and the insert of a call that is launching for that
\* key.
C15_AtomicCheckAndRegister ==
    [][IsCallStep =>
          \A i \in 1..Len(ops) :
             ~(ops[i].state = "invoking" /\ ops[i].key = ret'.key)]_vars

\* C16: in the full system, cleanup() and clear() included, a call made
\* while a Pending Entry of its key exists invokes no operation; an
\* operation is invoked only by a deduplicate or execute call, once, in a
\* step that finds no Pending Entry of the call's key and leaves one that
\* holds the new invocation's promise.
C16_OncePerEpoch ==
    [][/\ IsCallStep /\ MapHas(pending, ret'.key) => ops' = ops
       /\ Len(ops') # Len(ops) =>
            /\ IsCallStep
            /\ ret'.api \in {"deduplicate", "execute"}
            /\ Len(ops') = Len(ops) + 1
            /\ ops'[Len(ops')].state = "inflight"
            /\ ops'[Len(ops')].key = ret'.key
            /\ ~MapHas(pending, ret'.key)
            /\ MapHas(pending', ret'.key)
            /\ pending'[ret'.key].promise = Len(ops')]_vars

\* C16 witness: after the entry of an unsettled operation was removed, a
\* call for the same key has just invoked the operation again and
\* registered the new invocation.
C16_Witness ==
    /\ ret.api \in {"deduplicate", "execute"}
    /\ Cardinality(InFlightFor(ret.key)) = 2
    /\ MapHas(pending, ret.key)
    /\ pending[ret.key].promise = Len(ops)
    /\ calls[Len(calls)].op = Len(ops)

\* C17 as stated: a Pending Entry leaves the table only in the settlement of
\* the invocation it holds, in a cleanup() that finds it older than
\* requestTimeout, or in clear(); the later settlement of an invocation
\* whose entry was evicted leaves a newer entry of the key in place.
C17_Original ==
    [][\A k \in DOMAIN pending :
          ~MapHas(pending', k) \/ pending'[k] # pending[k] =>
             \/ ret'.api = "settle" /\ ret'.op = pending[k].promise
             \/ ret'.api = "cleanup"
                   /\ now - pending[k].startTime > requestTimeout
             \/ ret'.api = "clear"]_vars

\* C17 amended: a Pending Entry leaves the table only in the settlement of
\* an invocation made for its key, in a cleanup() that finds it older than
\* requestTimeout, or in clear(); the later settlement of an invocation
\* whose entry was evicted removes the newer entry of the key too, and a
\* call for that key made right after it does not attach to the newer
\* invocation: it invokes the operation again, unless the cool-down check
\* turns it away.
C17_RemovedByKey ==
    [][/\ \A k \in DOMAIN pending :
             ~MapHas(pending', k) \/ pending'[k] # pending[k] =>
                \/ ret'.api = "settle" /\ ret'.key = k
                \/ ret'.api = "cleanup"
                      /\ now - pending[k].startTime > requestTimeout
                \/ ret'.api = "clear"
       /\ ret'.api = "settle" /\ MapHas(pending, ret'.key) =>
             ~MapHas(pending', ret'.key)
       /\ ret.api = "settle" /\ ret.removed \notin {{}, {ret.op}}
             /\ IsCallStep /\ ret'.key = ret.key =>
             \/ InvokesAnew
             \/ ret'.api = "execute" /\ NewCall = RejectedRecently]_vars

\* C17 witness: an invocation whose entry was evicted has just settled and
\* removed the entry of a newer invocation of its key, which is unsettled.
C17_Witness ==
    /\ ret.api = "settle"
    /\ \E id \in ret.removed : id # ret.op /\ ops[id].state = "inflight"
    /\ ~MapHas(pending, ret.key)
    /\ Len(calls) < MaxCalls + 1

\* C18: the Completed Record written after a successful execute with window
\* T stays in the table, with a timestamp no older, as long as less than T
\* has elapsed since and clear() is not called, whatever cleanup() calls
\* run, by hand or from the auto-cleanup timer; an execute call with that T
\* inside the window is therefore rejected.  (Every record is written for
\* the window BlockWindow, the one positive value callers pass.)
C18_CoolDownSurvivesCleanup ==
    [][\A k \in DOMAIN completed :
          now' - completed[k] < BlockWindow /\ ret'.api # "clear" =>
             /\ MapHas(completed', k)
             /\ completed'[k] >= completed[k]]_vars

\* C19: the Completed table changes, apart from cleanup() and clear()
\* removing records, exactly when an invocation launched by an execute call
\* whose own blockAfterComplete is positive settles successfully: that step
\* writes the record of the invocation's key with the time of settlement;
\* no other settlement and no call writes a record, whatever
\* blockAfterComplete the callers that attached had passed.
C19_RecordOnOwnSuccess ==
    [][/\ ret'.api = "settle" =>
            IF /\ ret'.how = "fulfilled"
               /\ ret'.by = "execute"
               /\ Has(ops[ret'.op].options, "blockAfterComplete")
               /\ ops[ret'.op].options.blockAfterComplete > 0
            THEN completed' = MapSet(completed, ret'.key, now)
            ELSE completed' = completed
       /\ IsCallStep => completed' = completed
       /\ \A k \in DOMAIN completed' :
             ~MapHas(completed, k) \/ completed'[k] # completed[k] =>
                /\ ret'.api = "settle"
                /\ ret'.key = k
                /\ completed'[k] = now]_vars

\* C19 witness: the only invocation of the run, launched by an execute call
\* and shared by two callers, has just succeeded, later than the run began,
\* and the record of its key carries the present time.
C19_Witness ==
    /\ ret.api = "settle" /\ ret.how = "fulfilled" /\ ret.by = "execute"
    /\ Len(ops) = 1
    /\ Cardinality(CallersOf(1)) = 2
    /\ now > StartTime
    /\ MapHas(completed, ret.key)
    /\ completed[ret.key] = now

\* What deduplicate does with the tables, whatever the Completed table
\* holds: the call is never rejected and leaves the Completed table as it
\* was; it returns the promise of the Pending Entry of its key, whichever
\* mode launched it, or else invokes the operation and registers it; the
\* settlement of an invocation it launched leaves the Completed table as it
\* was.
DeduplicateIgnoresCompleted ==
    /\ IsCallStep /\ ret'.api = "deduplicate" =>
          /\ completed' = completed
          /\ IF MapHas(pending, ret'.key)
             THEN /\ UNCHANGED <<ops, pending>>
                  /\ NewCall = CallRecord(pending[ret'.key].promise, Unsettled)
             ELSE InvokesAnew
    /\ ret'.api = "settle" /\ ret'.by = "deduplicate" => completed' = completed

\* This step is an execute call whose key has a Pending Entry launched by
\* deduplicate.
ExecuteMeetsDeduplicateEntry ==
    /\ IsExecuteStep
    /\ MapHas(pending, ret'.key)
    /\ ops[pending[ret'.key].promise].api = "deduplicate"

\* C20 as stated: deduplicate neither reads nor writes the Completed table,
\* and the two modes share the Pending table: a deduplicate call attaches
\* to an entry execute launched, and an execute call attaches to an entry
\* deduplicate launched.
C20_Original ==
    [][/\ DeduplicateIgnoresCompleted
       /\ ExecuteMeetsDeduplicateEntry =>
             NewCall = CallRecord(pending[ret'.key].promise, Unsettled)]_vars

\* C20 amended: as stated, except that an execute call asking for a window
\* T > 0 while a Completed Record of its key has age < T is rejected with
\* 'recently_completed' and does not attach to the entry deduplicate
\* launched.
C20_SimpleModeFrame ==
    [][/\ DeduplicateIgnoresCompleted
       /\ ExecuteMeetsDeduplicateEntry =>
             IF /\ AsksWindow
                /\ MapHas(completed, ret'.key)
                /\ now - completed[ret'.key] < ret'.options.blockAfterComplete
             THEN NewCall = RejectedRecently
             ELSE NewCall =
                    CallRecord(pending[ret'.key].promise, Unsettled)]_vars

\* C20 witness: a deduplicate call has just attached to an entry execute
\* launched, while a Completed Record of the key is inside the window
\* execute callers ask for.
C20_Witness ==
    /\ ret.api = "deduplicate"
    /\ MapHas(completed, ret.key)
    /\ now - completed[ret.key] < BlockWindow
    /\ MapHas(pending, ret.key)
    /\ ops[pending[ret.key].promise].api = "execute"
    /\ calls[Len(calls)] = CallRecord(pending[ret.key].promise, Unsettled)
    /\ Cardinality(CallersOf(pending[ret.key].promise)) = 2

\* The positions of the ranges of a list that hold code c: start <= c < end.
RangesHolding(c, ranges) ==
    {i \in 1..Len(ranges) : ranges[i].start <= c /\ c < ranges[i].end}

\* The first range of the list that holds code c, when there is one.
FirstHolding(c, ranges) ==
    ranges[CHOOSE i \in RangesHolding(c, ranges) :
              \A j \in RangesHolding(c, ranges) : i <= j]

\* The classification the claim gives for code c.
MessageFor(c, messages, ranges, fallback) ==
    IF c \in DOMAIN messages /\ messages[c] # "" THEN messages[c]
    ELSE IF RangesHolding(c, ranges) # {}
    THEN FirstHolding(c, ranges).defaultMessage
    ELSE fallback
RetryableFor(c, ranges) ==
    IF RangesHolding(c, ranges) # {}
    THEN FirstHolding(c, ranges).isRetryable
    ELSE FALSE

\* The arguments of the call in ret, omitted ones replaced by the defaults
\* the signatures give.
GivenMessages(a) == IF "messages" \in DOMAIN a THEN a.messages ELSE <<>>
GivenRanges(a) ==
    IF "ranges" \in DOMAIN a THEN a.ranges ELSE DEFAULT_ERROR_RANGES
GivenFallback(a) ==
    IF "fallback" \in DOMAIN a THEN a.fallback
    ELSE "Operation failed, please retry"

\* C21: getUserFriendlyMessage returns messages[c] when that is a non-empty
\* string, otherwise the defaultMessage of the first range with
\* start <= c < end, otherwise the fallback; isRetryableError returns the
\* isRetryable flag of that first range, and false when no range holds c;
\* handleError classifies a numeric code as these two do and a code that is
\* not a number as code 0, which with the default ranges is never retryable
\* and, no message being predefined for 0, gets the fallback message.
C21_Classification ==
    /\ ret.api = "getUserFriendlyMessage" =>
          ret.value = MessageFor(ret.errorCode, GivenMessages(ret.args),
                                 GivenRanges(ret.args), GivenFallback(ret.args))
    /\ ret.api = "isRetryableError" =>
          ret.value = RetryableFor(ret.errorCode, GivenRanges(ret.args))
    /\ ret.api = "handleError" =>
          LET c == IF "code" \in DOMAIN ret.error
                      /\ ret.error.code.type = "number"
                   THEN ret.error.code.n ELSE 0
              numeric == "code" \in DOMAIN ret.error
                            /\ ret.error.code.type = "number"
          IN /\ ret.value.userMessage =
                   MessageFor(c, GivenMessages(ret.options),
                              GivenRanges(ret.options),
                              "Operation failed, please retry")
             /\ ret.value.isRetryable =
                   RetryableFor(c, GivenRanges(ret.options))
             /\ ~numeric /\ GivenRanges(ret.options) = DEFAULT_ERROR_RANGES =>
                   /\ ret.value.isRetryable = FALSE
                   /\ 0 \notin DOMAIN GivenMessages(ret.options) =>
                         ret.value.userMessage =
                            "Operation failed, please retry"

\* C21 witness: with the default ranges and a message predefined for
\* another code, the code equal to the end of the first range has just got
\* the message of the second range.
C21_Witness ==
    /\ ret.api = "getUserFriendlyMessage"
    /\ ~("ranges" \in DOMAIN ret.args)
    /\ "messages" \in DOMAIN ret.args
    /\ ret.errorCode = DEFAULT_ERROR_RANGES[1].end
    /\ ret.errorCode \notin DOMAIN ret.args.messages
    /\ ret.value = DEFAULT_ERROR_RANGES[2].defaultMessage

\* C22: the cool-down check depends on the age of the Completed Record
\* only: an execute call asking for a window T > 0 at a time t < T, while
\* the Completed Record of its key has timestamp 0, is rejected with
\* 'recently_completed' and invokes nothing, like a call that meets a
\* record with any other timestamp.
C22_ZeroTimestampBlocks ==
    [][IsExecuteStep /\ AsksWindow /\ MapHas(completed, ret'.key)
         /\ completed[ret'.key] = 0
         /\ now < ret'.options.blockAfterComplete =>
            /\ NewCall = RejectedRecently
            /\ ops' = ops]_vars

====
